---- MODULE Spec2Model ----
(***************************************************************************)
(* lsaddr: list the IPv4 / IPv6 addresses of the host's interfaces.        *)
(* A model of src/lsaddr.c: parse_opt, get_interfaces,                     *)
(* remove_bad_interfaces, cmp and main, one action per step of main.       *)
(*                                                                         *)
(* Text is modelled as sequences of one-character strings, so that         *)
(* tokenising, colon stripping and address formatting are computed as the  *)
(* code computes them.                                                     *)
(***************************************************************************)
EXTENDS Integers, Sequences, FiniteSets, TLC

VARIABLES
  pc,          \* position of main
  args,        \* struct args (lsaddr.c:43-53), interfaces/num_interfaces included
  procNetDev,  \* environment: the file /proc/net/dev as get_interfaces finds it
  interfaces,  \* main's `interfaces` / `num_interfaces`, filled by get_interfaces
  ifc_len,     \* stuff.ifc_len, in bytes
  ifc_req,     \* stuff.ifc_req, the entries SIOCGIFCONF wrote
  stdoutBuf,   \* lines printf has written to the stdio buffer of stdout
  emitted,     \* ghost: for each line of stdoutBuf, the record it came from
  delivered,   \* lines that reached file descriptor 1 (the buffer is flushed by exit)
  stderr,      \* diagnostics written by error() and perror()
  exitStatus,  \* << >> while running, <<status>> once the process has exited
  held,        \* resources acquired and not released by the program
  calls,       \* ghost: the system calls made so far
  failed,      \* ghost: the call whose failure ended the run, "none" otherwise
  ub,          \* ghost: undefined behaviour has been executed
  argvNames,   \* ghost: the positional arguments as given on the command line
  probeOk,     \* ghost: result of the SIOCGIFINDEX probe of each positional name
  procNetIfInet6  \* environment: the rows of /proc/net/if_inet6 the read loop found

vars == <<pc, args, procNetDev, interfaces, ifc_len, ifc_req, stdoutBuf, emitted,
          delivered, stderr, exitStatus, held, calls, failed, ub, argvNames, probeOk,
          procNetIfInet6>>

----------------------------------------------------------------------------
(* Program constants *)

OPT_INCLUDE_LOOPBACK == 1
OPT_INCLUDE_LINK_LOCAL == 2
OPT_LIST_INTERFACES == 3
\* '4' and '6', the short option keys, as character codes
KEY_4 == 52
KEY_6 == 54
\* ARGP_KEY_ARGS of <argp.h>; any value distinct from the option keys
ARGP_KEY_ARGS == 16777222
PROC_NET_DEV_HEADER_LINES == 2
\* IFNAMSIZ of <net/if.h>, sizeof(struct ifreq) and ADDRSTRLEN (INET6_ADDRSTRLEN)
IFNAMSIZ == 16
SIZEOF_IFREQ == 40
ADDRSTRLEN == 46
EXIT_SUCCESS == 0
EXIT_FAILURE == 1

(* Bounds of the model *)
MaxNames == 2      \* positional interface names on the command line
MaxV4 == 2         \* entries of the SIOCGIFCONF table
MaxV6 == 2         \* rows of /proc/net/if_inet6
MaxLineLen == 3    \* characters of a data line of /proc/net/dev (lister specification)
MaxDataLines == 2  \* data lines of /proc/net/dev (lister specification)

----------------------------------------------------------------------------
(* Text helpers *)

Min(a, b) == IF a < b THEN a ELSE b

Take(s, n) == SubSeq(s, 1, Min(n, Len(s)))

RECURSIVE Rep(_, _)
Rep(c, n) == IF n = 0 THEN << >> ELSE <<c>> \o Rep(c, n - 1)

SeqsUpTo(S, n) == UNION {[1..k -> S] : k \in 0..n}

\* The null pointer, as the value of a char * that points to no string.
NULL == <<"(nil)">>

\* isspace() of the C locale, on the characters that occur
IsSpace(c) == c \in {" ", "\t", "\n"}

RECURSIVE SkipSpace(_)
SkipSpace(s) == IF s = << >> \/ ~IsSpace(Head(s)) THEN s ELSE SkipSpace(Tail(s))

RECURSIVE TakeToken(_)
TakeToken(s) ==
  IF s = << >> \/ IsSpace(Head(s)) THEN << >> ELSE <<Head(s)>> \o TakeToken(Tail(s))

\* sscanf(line, "%ms", p): the first whitespace-delimited token; when the line
\* holds none the conversion fails and *p keeps its value (NULL, from calloc).
ScanfMs(line) ==
  LET t == TakeToken(SkipSpace(line)) IN IF t = << >> THEN NULL ELSE t

\* index(s, c): the position of the first c in s, 0 for the null result
RECURSIVE Index(_, _)
Index(s, c) ==
  IF s = << >> THEN 0
  ELSE IF Head(s) = c THEN 1
  ELSE LET r == Index(Tail(s), c) IN IF r = 0 THEN 0 ELSE r + 1

\* *index(name, ':') = '\0' where index found the colon: the string ends there
CutAtColon(name) == SubSeq(name, 1, Index(name, ":") - 1)

----------------------------------------------------------------------------
(* Command line: struct args and parse_opt *)

\* main's initialiser of struct args; interfaces = NULL is the empty array
ArgsInit ==
  [ip_version_specified |-> FALSE, ipv4 |-> FALSE, ipv6 |-> FALSE,
   include_loopback |-> FALSE, include_link_local |-> FALSE,
   interfaces_specified |-> FALSE, list_interfaces |-> FALSE,
   interfaces |-> << >>, num_interfaces |-> 0]

\* parse_opt(key, arg, state) on args a; rest is state->argv + state->next.
\* An unknown key (ARGP_ERR_UNKNOWN) leaves the arguments as they are.
parse_opt(a, key, rest) ==
  CASE key = KEY_4 -> [a EXCEPT !.ip_version_specified = TRUE, !.ipv4 = TRUE]
    [] key = KEY_6 -> [a EXCEPT !.ip_version_specified = TRUE, !.ipv6 = TRUE]
    [] key = OPT_INCLUDE_LOOPBACK -> [a EXCEPT !.include_loopback = TRUE]
    [] key = OPT_INCLUDE_LINK_LOCAL -> [a EXCEPT !.include_link_local = TRUE]
    [] key = OPT_LIST_INTERFACES -> [a EXCEPT !.list_interfaces = TRUE]
    [] key = ARGP_KEY_ARGS -> [a EXCEPT !.interfaces_specified = TRUE,
                                        !.interfaces = rest,
                                        !.num_interfaces = Len(rest)]
    [] OTHER -> a

\* The options table
options ==
  <<KEY_4, KEY_6, OPT_INCLUDE_LOOPBACK, OPT_INCLUDE_LINK_LOCAL, OPT_LIST_INTERFACES>>

\* argp_parse: parse_opt once for every option given, then once with
\* ARGP_KEY_ARGS when positional arguments remain.
RECURSIVE ParseOptions(_, _, _)
ParseOptions(a, given, i) ==
  IF i > Len(options) THEN a
  ELSE ParseOptions(IF options[i] \in given THEN parse_opt(a, options[i], << >>) ELSE a,
                    given, i + 1)

argp_parse(given, names) ==
  LET a == ParseOptions(ArgsInit, given, 1)
  IN  IF names = << >> THEN a ELSE parse_opt(a, ARGP_KEY_ARGS, names)

\* Names the model's command lines and tables draw from
lo == <<"l", "o">>
eth0 == <<"e", "t", "h", "0">>
Eth0 == <<"E", "t", "h", "0">>
nope == <<"n", "o", "p", "e">>

UserNames == {eth0, nope}

----------------------------------------------------------------------------
(* Process exit and the stdio buffer of stdout *)

\* An exit that drops the stdio buffer, as _exit() would
FflushNothing(d, buf) == d

\* exit() and the return from main flush the stdio buffers
Fflush(d, buf) == d \o buf

Exit(status, buf) ==
  /\ pc' = "exited"
  /\ exitStatus' = <<status>>
  /\ delivered' = Fflush(delivered, buf)

\* A fatal signal ends the process without flushing; what was delivered before
\* depends on the buffering of stdout (a terminal is line buffered).
Crash(buf) ==
  /\ pc' = "crashed"
  /\ exitStatus' = exitStatus
  /\ delivered' \in {delivered, delivered \o buf}

Msg(text, arg) == [msg |-> text, arg |-> arg]

----------------------------------------------------------------------------
(* get_interfaces *)

HeaderLine == <<"h">>

DevFile(lines, readError) == [exists |-> TRUE, lines |-> lines, readError |-> readError]
NoDevFile == [exists |-> FALSE, lines |-> << >>, readError |-> FALSE]

\* The lines after the header lines
DataLines(f) == SubSeq(f.lines, PROC_NET_DEV_HEADER_LINES + 1, Len(f.lines))

\* The parse loop on one line: the token, cut at its first colon.  A line with
\* no token leaves the null pointer and index() reads through it; a token with
\* no colon makes index() return null and the store goes through that.
LineIsUB(line) == ScanfMs(line) = NULL \/ Index(ScanfMs(line), ":") = 0

ParseLine(line) ==
  LET name == ScanfMs(line)
  IN  IF LineIsUB(line) THEN name ELSE CutAtColon(name)

ParseLines(data) == [i \in 1..Len(data) |-> ParseLine(data[i])]

GetInterfacesNoFile ==
  /\ pc = "get_interfaces"
  /\ ~procNetDev.exists
  /\ calls' = calls \cup {"fopen_dev"}
  /\ failed' = "fopen_dev"
  /\ stderr' = Append(stderr, Msg("error listing interfaces: could not open file", << >>))
  /\ Exit(EXIT_FAILURE, stdoutBuf)
  /\ UNCHANGED <<args, procNetDev, interfaces, ifc_len, ifc_req, stdoutBuf, emitted,
                 held, ub, argvNames, probeOk, procNetIfInet6>>

\* errorparse: fewer lines than the header, or a read error (ferror)
GetInterfacesParseError ==
  /\ pc = "get_interfaces"
  /\ procNetDev.exists
  /\ Len(procNetDev.lines) < PROC_NET_DEV_HEADER_LINES \/ procNetDev.readError
  /\ calls' = calls \cup {"fopen_dev"}
  /\ held' = held \cup {"proc_net_dev", "line"}
  /\ failed' = "parse_dev"
  /\ stderr' = Append(stderr, Msg("error listing interfaces: could not parse file", << >>))
  /\ Exit(EXIT_FAILURE, stdoutBuf)
  /\ UNCHANGED <<args, procNetDev, interfaces, ifc_len, ifc_req, stdoutBuf, emitted,
                 ub, argvNames, probeOk, procNetIfInet6>>

GetInterfacesOk ==
  /\ pc = "get_interfaces"
  /\ procNetDev.exists
  /\ Len(procNetDev.lines) >= PROC_NET_DEV_HEADER_LINES
  /\ ~procNetDev.readError
  /\ calls' = calls \cup {"fopen_dev"}
  /\ LET data == DataLines(procNetDev)
         undefined == \E i \in 1..Len(data) : LineIsUB(data[i])
     IN  \/ /\ interfaces' = ParseLines(data)
            /\ ub' = (ub \/ undefined)
            /\ held' = held \cup {"proc_net_dev", "line", "interfaces"}
            /\ pc' = "list_interfaces"
            /\ UNCHANGED <<exitStatus, delivered>>
         \/ /\ undefined
            /\ ub' = TRUE
            /\ held' = held \cup {"proc_net_dev", "line", "interfaces"}
            /\ Crash(stdoutBuf)
            /\ UNCHANGED interfaces
  /\ UNCHANGED <<args, procNetDev, ifc_len, ifc_req, stdoutBuf, emitted, stderr,
                 failed, argvNames, probeOk, procNetIfInet6>>

get_interfaces == GetInterfacesNoFile \/ GetInterfacesParseError \/ GetInterfacesOk

----------------------------------------------------------------------------
(* Address formatting *)

Digit(d) == <<"0", "1", "2", "3", "4", "5", "6", "7", "8", "9">>[d + 1]

RECURSIVE Dec(_)
Dec(n) == IF n < 10 THEN <<Digit(n)>> ELSE Dec(n \div 10) \o <<Digit(n % 10)>>

\* inet_ntop(AF_INET, ...): the four bytes in decimal, joined by dots
inet_ntop(a) ==
  Dec(a[1]) \o <<".">> \o Dec(a[2]) \o <<".">> \o Dec(a[3]) \o <<".">> \o Dec(a[4])

\* "%.4s" applied to ip + off: at most four characters, ending at the
\* terminating NUL of ip
Pct4s(ip, off) == SubSeq(ip, off + 1, Min(off + 4, Len(ip)))

\* snprintf(pretty_ip, sizeof(pretty_ip), "%.4s:%.4s:...:%.4s", ip, ip + 4, ..., ip + 28)
pretty_ip(ip) ==
  Take(Pct4s(ip, 0) \o <<":">> \o Pct4s(ip, 4) \o <<":">> \o Pct4s(ip, 8) \o <<":">>
       \o Pct4s(ip, 12) \o <<":">> \o Pct4s(ip, 16) \o <<":">> \o Pct4s(ip, 20)
       \o <<":">> \o Pct4s(ip, 24) \o <<":">> \o Pct4s(ip, 28),
       ADDRSTRLEN - 1)

\* printf("%s\n", p) with p null prints "(null)" where it does not fault
PrintfS(p) == IF p = NULL THEN <<"(", "n", "u", "l", "l", ")">> ELSE p

----------------------------------------------------------------------------
(* The environment's tables *)

Ifreq(name, addr) == [ifr_name |-> name, ifr_addr |-> addr]

\* Entries SIOCGIFCONF may return: the loopback interface and one ethernet
V4Entries == {Ifreq(lo, <<127, 0, 0, 1>>), Ifreq(eth0, <<10, 0, 0, 5>>)}

LOOPBACK6 == Rep("0", 31) \o <<"1">>
LINKLOCAL6 == <<"f", "e", "8", "0">> \o Rep("0", 27) \o <<"1">>
GLOBAL6 == <<"2", "0", "0", "1", "0", "d", "b", "8">> \o Rep("0", 23) \o <<"1">>

\* A row of /proc/net/if_inet6: address, index, prefix length, scope, flags, name
Inet6Row(ip, idx, name) == <<ip, <<"0", idx>>, <<"4", "0">>, <<"2", "0">>, <<"8", "0">>, name>>

V6Rows ==
  {Inet6Row(LOOPBACK6, "1", lo), Inet6Row(LINKLOCAL6, "2", eth0),
   Inet6Row(GLOBAL6, "3", Eth0)}

\* The file as fscanf sees it: the whitespace-delimited tokens of its rows
RECURSIVE Tokens(_)
Tokens(rows) == IF rows = << >> THEN << >> ELSE Head(rows) \o Tokens(Tail(rows))

----------------------------------------------------------------------------
(* Interface filter *)

\* A comparison that ignores the case of letters, as strcasecmp would
ToLower(c) == IF c = "E" THEN "e" ELSE c

cmpIgnoreCase(left, right) ==
  IF [i \in 1..Len(left) |-> ToLower(left[i])] = [i \in 1..Len(right) |-> ToLower(right[i])]
  THEN 0 ELSE 1

\* cmp: strcmp of the two names; lfind only asks whether it is zero
cmp(left, right) == IF left = right THEN 0 ELSE 1

\* lfind(&key, base, &num, sizeof(char *), cmp) != NULL
lfind(key, base, num) == \E i \in 1..num : cmp(key, base[i]) = 0

\* The condition of lines 241-243 and 264-266
Selected(a, ifc) ==
  ~a.interfaces_specified \/ lfind(ifc, a.interfaces, a.num_interfaces)

\* An IPv4 condition that forgets the run without family flags
WantV4FlagOnly(a) == a.ipv4

\* The conditions of lines 244 and 253
WantV4(a) == ~a.ip_version_specified \/ a.ipv4
WantV6(a) == ~a.ip_version_specified \/ a.ipv6

\* strncpy(req.ifr_name, name, IFNAMSIZ)
Strncpy(name, n) == Take(name, n)

\* The loop of remove_bad_interfaces: names whose probe succeeded are moved
\* to the front of the array in place, num_interfaces becomes their count and
\* every failed probe is reported with error(0, errno, ...).
RECURSIVE RemoveLoop(_, _, _, _, _, _)
RemoveLoop(ifs, num, ok, in_ix, out_ix, warned) ==
  IF in_ix > num THEN [interfaces |-> ifs, num_interfaces |-> out_ix - 1, warnings |-> warned]
  ELSE IF ~ok[in_ix]
       THEN RemoveLoop(ifs, num, ok, in_ix + 1, out_ix,
                       Append(warned, Msg("could not open interface", ifs[in_ix])))
       ELSE RemoveLoop([ifs EXCEPT ![out_ix] = ifs[in_ix]], num, ok, in_ix + 1,
                       out_ix + 1, warned)

remove_bad_interfaces(ifs, num, ok) == RemoveLoop(ifs, num, ok, 1, 1, << >>)

\* The kernel's answer to SIOCGIFINDEX for a name: the model's hosts have no
\* interface called "nope"; any other interface may be there or be gone.
ProbeResults(ifr_name) == IF ifr_name = nope THEN {FALSE} ELSE BOOLEAN

----------------------------------------------------------------------------
(* main *)

Rec(ifc, family, addr) == [ifc |-> ifc, family |-> family, addr |-> addr]

\* errorout: perror("something went wrong"); exit(EXIT_FAILURE)
ErrorOut(call) ==
  /\ failed' = call
  /\ stderr' = Append(stderr, Msg("something went wrong", << >>))
  /\ Exit(EXIT_FAILURE, stdoutBuf)

\* argp_parse(&argp, argc, argv, 0, 0, &args)
ArgpParse ==
  /\ pc = "start"
  /\ \E given \in SUBSET {options[i] : i \in 1..Len(options)},
        names \in SeqsUpTo(UserNames, MaxNames) :
       /\ args' = argp_parse(given, names)
       /\ argvNames' = names
  /\ pc' = "get_interfaces"
  /\ UNCHANGED <<procNetDev, interfaces, ifc_len, ifc_req, stdoutBuf, emitted, delivered,
                 stderr, exitStatus, held, calls, failed, ub, probeOk, procNetIfInet6>>

\* A listing step that prints the names and goes on instead of exiting
ListInterfacesNoExit ==
  /\ pc = "list_interfaces"
  /\ args.list_interfaces
  /\ stdoutBuf' = stdoutBuf \o interfaces
  /\ emitted' = emitted \o [i \in 1..Len(interfaces) |-> [ifc |-> interfaces[i],
                                                          family |-> "ifname",
                                                          addr |-> << >>]]
  /\ pc' = "socket"
  /\ UNCHANGED <<args, procNetDev, interfaces, ifc_len, ifc_req, delivered, stderr,
                 exitStatus, held, calls, failed, ub, argvNames, probeOk, procNetIfInet6>>

\* Lines 201-206: print the names and exit.  A null entry (left by the
\* undefined parse of a line without a token) is undefined for "%s".
ListInterfaces ==
  /\ pc = "list_interfaces"
  /\ args.list_interfaces
  /\ LET texts == [i \in 1..Len(interfaces) |-> PrintfS(interfaces[i])]
         recs == [i \in 1..Len(interfaces) |-> Rec(interfaces[i], "ifname", << >>)]
         nulls == {i \in 1..Len(interfaces) : interfaces[i] = NULL}
     IN  \/ /\ stdoutBuf' = stdoutBuf \o texts
            /\ emitted' = emitted \o recs
            /\ Exit(EXIT_SUCCESS, stdoutBuf')
         \/ /\ nulls # {}
            /\ LET first == CHOOSE i \in nulls : \A j \in nulls : i <= j
               IN  /\ stdoutBuf' = stdoutBuf \o SubSeq(texts, 1, first - 1)
                   /\ emitted' = emitted \o SubSeq(recs, 1, first - 1)
            /\ Crash(stdoutBuf')
  /\ UNCHANGED <<args, procNetDev, interfaces, ifc_len, ifc_req, stderr, held, calls,
                 failed, ub, argvNames, probeOk, procNetIfInet6>>

\* Lines 208-213: access("/proc/net", R_OK) and access("/proc/net/if_inet6", R_OK)
Access ==
  /\ pc = "list_interfaces"
  /\ ~args.list_interfaces
  /\ \/ /\ calls' = calls \cup {"access_proc_net"}
        /\ ErrorOut("access_proc_net")
     \/ /\ calls' = calls \cup {"access_proc_net", "access_if_inet6"}
        /\ ErrorOut("access_if_inet6")
     \/ /\ calls' = calls \cup {"access_proc_net", "access_if_inet6"}
        /\ pc' = "socket"
        /\ UNCHANGED <<stderr, exitStatus, delivered, failed>>
  /\ UNCHANGED <<args, procNetDev, interfaces, ifc_len, ifc_req, stdoutBuf, emitted,
                 held, ub, argvNames, probeOk, procNetIfInet6>>

\* Lines 215-218: socket(AF_INET6, SOCK_DGRAM, IPPROTO_IP)
Socket ==
  /\ pc = "socket"
  /\ calls' = calls \cup {"socket"}
  /\ \/ /\ ErrorOut("socket")
        /\ UNCHANGED held
     \/ /\ held' = held \cup {"sockfd"}
        /\ pc' = "remove_bad_interfaces"
        /\ UNCHANGED <<stderr, exitStatus, delivered, failed>>
  /\ UNCHANGED <<args, procNetDev, interfaces, ifc_len, ifc_req, stdoutBuf, emitted,
                 ub, argvNames, probeOk, procNetIfInet6>>

\* Line 220: remove_bad_interfaces(sockfd, args.interfaces, &args.num_interfaces);
\* its return value is not looked at.
RemoveBadInterfaces ==
  /\ pc = "remove_bad_interfaces"
  /\ \E ok \in [1..args.num_interfaces -> BOOLEAN] :
       /\ \A i \in 1..args.num_interfaces :
            ok[i] \in ProbeResults(Strncpy(args.interfaces[i], IFNAMSIZ))
       /\ LET r == remove_bad_interfaces(args.interfaces, args.num_interfaces, ok)
          IN  /\ args' = [args EXCEPT !.interfaces = r.interfaces,
                                      !.num_interfaces = r.num_interfaces]
              /\ stderr' = stderr \o r.warnings
       /\ probeOk' = ok
  /\ calls' = IF args.num_interfaces > 0 THEN calls \cup {"SIOCGIFINDEX"} ELSE calls
  /\ pc' = "ifconf_size"
  /\ UNCHANGED <<procNetDev, interfaces, ifc_len, ifc_req, stdoutBuf, emitted, delivered,
                 exitStatus, held, failed, ub, argvNames, procNetIfInet6>>

\* Lines 222-227: SIOCGIFCONF with a null buffer asks for the size
IfconfSize ==
  /\ pc = "ifconf_size"
  /\ calls' = calls \cup {"SIOCGIFCONF"}
  /\ \/ /\ ErrorOut("SIOCGIFCONF")
        /\ UNCHANGED ifc_len
     \/ /\ \E n \in 0..MaxV4 : ifc_len' = n * SIZEOF_IFREQ
        /\ pc' = "malloc"
        /\ UNCHANGED <<stderr, exitStatus, delivered, failed>>
  /\ UNCHANGED <<args, procNetDev, interfaces, ifc_req, stdoutBuf, emitted, held, ub,
                 argvNames, probeOk, procNetIfInet6>>

\* Lines 228-230: malloc(stuff.ifc_len)
Malloc ==
  /\ pc = "malloc"
  /\ calls' = calls \cup {"malloc"}
  /\ \/ /\ ErrorOut("malloc")
        /\ UNCHANGED held
     \/ /\ held' = held \cup {"ifc_buf"}
        /\ pc' = "ifconf_fill"
        /\ UNCHANGED <<stderr, exitStatus, delivered, failed>>
  /\ UNCHANGED <<args, procNetDev, interfaces, ifc_len, ifc_req, stdoutBuf, emitted,
                 ub, argvNames, probeOk, procNetIfInet6>>

\* Lines 232-235: SIOCGIFCONF fills the buffer with the entries that fit
\* and sets ifc_len to the bytes written.
IfconfFill ==
  /\ pc = "ifconf_fill"
  /\ \/ /\ ErrorOut("SIOCGIFCONF")
        /\ UNCHANGED <<ifc_len, ifc_req>>
     \/ /\ \E table \in SeqsUpTo(V4Entries, MaxV4) :
             /\ Len(table) * SIZEOF_IFREQ <= ifc_len
             /\ ifc_req' = table
             /\ ifc_len' = Len(table) * SIZEOF_IFREQ
        /\ pc' = "ipv4"
        /\ UNCHANGED <<stderr, exitStatus, delivered, failed>>
  /\ UNCHANGED <<args, procNetDev, interfaces, stdoutBuf, emitted, held, calls, ub,
                 argvNames, probeOk, procNetIfInet6>>

\* One line of output with the record it stands for
Line(text, rec) == [text |-> text, rec |-> rec]

Texts(ls) == [i \in 1..Len(ls) |-> ls[i].text]
Recs(ls) == [i \in 1..Len(ls) |-> ls[i].rec]

\* The loop of lines 239-251 over the entries i..len of stuff.ifc_req
RECURSIVE V4Loop(_, _, _, _)
V4Loop(a, req, i, len) ==
  IF i > len THEN << >>
  ELSE LET ifc == req[i].ifr_name
           here == IF Selected(a, ifc) /\ WantV4(a)
                   THEN <<Line(inet_ntop(req[i].ifr_addr),
                               Rec(ifc, "inet", req[i].ifr_addr))>>
                   ELSE << >>
       IN  here \o V4Loop(a, req, i + 1, len)

Ipv4 ==
  /\ pc = "ipv4"
  /\ LET ls == V4Loop(args, ifc_req, 1, ifc_len \div SIZEOF_IFREQ)
     IN  /\ stdoutBuf' = stdoutBuf \o Texts(ls)
         /\ emitted' = emitted \o Recs(ls)
  /\ pc' = "ipv6"
  /\ UNCHANGED <<args, procNetDev, interfaces, ifc_len, ifc_req, delivered, stderr,
                 exitStatus, held, calls, failed, ub, argvNames, probeOk, procNetIfInet6>>

\* The loop of lines 262-273 over the tokens left in the file: each fscanf
\* takes six tokens, keeps the first (ip) and the sixth (ifc).  The file holds
\* whole rows, as the kernel writes it.
RECURSIVE V6Loop(_, _)
V6Loop(a, toks) ==
  IF Len(toks) < 6 THEN << >>
  ELSE LET ip == toks[1]
           ifc == toks[6]
           here == IF Selected(a, ifc)
                   THEN <<Line(pretty_ip(ip), Rec(ifc, "inet6", ip))>>
                   ELSE << >>
       IN  here \o V6Loop(a, SubSeq(toks, 7, Len(toks)))

\* Line 253 false: nothing is left to do, main returns 0
Ipv6NotWanted ==
  /\ pc = "ipv6"
  /\ ~WantV6(args)
  /\ Exit(EXIT_SUCCESS, stdoutBuf)
  /\ UNCHANGED <<args, procNetDev, interfaces, ifc_len, ifc_req, stdoutBuf, emitted,
                 stderr, held, calls, failed, ub, argvNames, probeOk, procNetIfInet6>>

\* Lines 254-259: fopen fails, the failure is reported and main goes to errorout
Ipv6OpenFails ==
  /\ pc = "ipv6"
  /\ WantV6(args)
  /\ calls' = calls \cup {"fopen_if_inet6"}
  /\ failed' = "fopen_if_inet6"
  /\ stderr' = stderr \o <<Msg("could not open file", << >>),
                           Msg("something went wrong", << >>)>>
  /\ Exit(EXIT_FAILURE, stdoutBuf)
  /\ UNCHANGED <<args, procNetDev, interfaces, ifc_len, ifc_req, stdoutBuf, emitted,
                 held, ub, argvNames, probeOk, procNetIfInet6>>

\* Lines 254-276: the table is opened and read to its end, main returns 0
Ipv6Read ==
  /\ pc = "ipv6"
  /\ WantV6(args)
  /\ calls' = calls \cup {"fopen_if_inet6"}
  /\ held' = held \cup {"if_inet6"}
  /\ \E rows \in SeqsUpTo(V6Rows, MaxV6) :
       LET ls == V6Loop(args, Tokens(rows))
       IN  /\ procNetIfInet6' = rows
           /\ stdoutBuf' = stdoutBuf \o Texts(ls)
           /\ emitted' = emitted \o Recs(ls)
  /\ Exit(EXIT_SUCCESS, stdoutBuf')
  /\ UNCHANGED <<args, procNetDev, interfaces, ifc_len, ifc_req, stderr, failed, ub,
                 argvNames, probeOk>>

----------------------------------------------------------------------------
(* Specifications *)

GoodLines ==
  <<HeaderLine, HeaderLine, <<" ", "l", "o", ":", " ", "1">>,
    <<"e", "t", "h", "0", ":", "1">>>>

\* /proc/net/dev as a run of the whole program may find it: absent, cut short,
\* unreadable, as the kernel writes it, and with a blank data line
DevSamples ==
  {NoDevFile, DevFile(<<HeaderLine>>, FALSE), DevFile(GoodLines, TRUE),
   DevFile(GoodLines, FALSE), DevFile(<<HeaderLine, HeaderLine, <<" ">>>>, FALSE)}

\* Every listing of the lister specification: each number of header lines up
\* to the full header, then every sequence of data lines over a small alphabet
LineChars == {" ", "a", ":"}

AllDevFiles ==
  {NoDevFile}
  \cup {DevFile(Rep(HeaderLine, k), e) : k \in 0..PROC_NET_DEV_HEADER_LINES, e \in BOOLEAN}
  \cup {DevFile(Rep(HeaderLine, PROC_NET_DEV_HEADER_LINES) \o d, FALSE) :
          d \in SeqsUpTo(SeqsUpTo(LineChars, MaxLineLen), MaxDataLines)}

InitAt(start, files) ==
  /\ pc = start
  /\ args = ArgsInit
  /\ procNetDev \in files
  /\ interfaces = << >>
  /\ ifc_len = 0
  /\ ifc_req = << >>
  /\ stdoutBuf = << >>
  /\ emitted = << >>
  /\ delivered = << >>
  /\ stderr = << >>
  /\ exitStatus = << >>
  /\ held = {}
  /\ calls = {}
  /\ failed = "none"
  /\ ub = FALSE
  /\ argvNames = << >>
  /\ probeOk = << >>
  /\ procNetIfInet6 = << >>

Init == InitAt("start", DevSamples)

Next ==
  \/ ArgpParse
  \/ get_interfaces
  \/ ListInterfaces
  \/ Access
  \/ Socket
  \/ RemoveBadInterfaces
  \/ IfconfSize
  \/ Malloc
  \/ IfconfFill
  \/ Ipv4
  \/ Ipv6NotWanted
  \/ Ipv6OpenFails
  \/ Ipv6Read

Spec == Init /\ [][Next]_vars

\* get_interfaces alone, on every listing within the bounds
InitLister == InitAt("get_interfaces", AllDevFiles)

NextLister == get_interfaces

SpecLister == InitLister /\ [][NextLister]_vars

----------------------------------------------------------------------------
(* Vocabulary of the properties *)

\* The groups of a line of output, split at its colons
RECURSIVE Groups(_)
Groups(text) ==
  LET k == Index(text, ":")
  IN  IF k = 0 THEN <<text>>
      ELSE <<SubSeq(text, 1, k - 1)>> \o Groups(SubSeq(text, k + 1, Len(text)))

HexDigits ==
  <<"0", "1", "2", "3", "4", "5", "6", "7", "8", "9", "a", "b", "c", "d", "e", "f">>

HexVal(c) == (CHOOSE k \in 1..16 : HexDigits[k] = c) - 1

RECURSIVE HexNum(_)
HexNum(g) ==
  IF g = << >> THEN 0 ELSE 16 * HexNum(SubSeq(g, 1, Len(g) - 1)) + HexVal(g[Len(g)])

HasColon(text) == Index(text, ":") # 0

DottedDecimal(text) ==
  /\ Cardinality({i \in 1..Len(text) : text[i] = "."}) = 3
  /\ \A i \in 1..Len(text) : text[i] = "." \/ \E d \in 0..9 : text[i] = Digit(d)

\* An IPv6 line whose eight groups are 0000 ... 0000 0001
Loopback6Text(text) ==
  LET g == Groups(text)
  IN  /\ Len(g) = 8
      /\ \A k \in 1..7 : g[k] = Rep("0", 4)
      /\ g[8] = <<"0", "0", "0", "1">>

\* An IPv6 line whose first group lies in fe80 .. febf
LinkLocalText(text) ==
  LET g == Groups(text)
  IN  /\ Len(g) = 8
      /\ Len(g[1]) = 4
      /\ HexNum(g[1]) >= 65152
      /\ HexNum(g[1]) <= 65215

IsAddressLine(i) == emitted[i].family \in {"inet", "inet6"}

LoopbackLine(i) ==
  \/ emitted[i].family = "inet6" /\ Loopback6Text(stdoutBuf[i])
  \/ emitted[i].family = "inet" /\ emitted[i].ifc = lo /\ emitted[i].addr[1] = 127

SameRecord(r, q) == r.family = q.family /\ r.ifc = q.ifc /\ r.addr = q.addr

\* The positional names whose probe succeeded, from the command line as given
Passed == {i \in 1..Len(probeOk) : probeOk[i]}
PassedNames == {argvNames[i] : i \in Passed}

\* The subsequence of s at the positions of the set I, in order
RECURSIVE Pick(_, _, _)
Pick(s, I, i) ==
  IF i > Len(s) THEN << >>
  ELSE (IF i \in I THEN <<s[i]>> ELSE << >>) \o Pick(s, I, i + 1)

\* remove_bad_interfaces has returned
Validated == pc = "ifconf_size" \/ "SIOCGIFCONF" \in calls

\* The interface filter as the user meant it, once validation is done
InFilter(name) == ~args.interfaces_specified \/ name \in PassedNames

----------------------------------------------------------------------------
(* C1 *)

\* C1: in a run free of undefined behaviour, without --include-loopback no loopback address (an IPv6 line whose
\* groups are all 0000 but the last, 0001, or the IPv4 address of the loopback
\* interface) is printed.
C1_NoLoopbackByDefault ==
  (~ub /\ ~args.include_loopback) => \A i \in 1..Len(stdoutBuf) : ~LoopbackLine(i)

(* C2 *)

\* C2: in a run free of undefined behaviour, without --include-link-local no IPv6 line whose first group lies in
\* fe80 .. febf is printed.
C2_NoLinkLocalByDefault ==
  (~ub /\ ~args.include_link_local) =>
    \A i \in 1..Len(stdoutBuf) :
      ~(emitted[i].family = "inet6" /\ LinkLocalText(stdoutBuf[i]))

(* C3 *)

\* C3: in a run free of undefined behaviour, no (interface, family, address)
\* triple is printed twice.
C3_NoDuplicateRecords ==
  ~ub => \A i, j \in 1..Len(emitted) :
    (i < j /\ IsAddressLine(i) /\ IsAddressLine(j)) => ~SameRecord(emitted[i], emitted[j])

(* C4 *)

FinishedOk == pc = "exited" /\ exitStatus = <<EXIT_SUCCESS>>

\* C4: with -4 alone no line holding a colon is printed, with -6 alone no
\* dotted-decimal line is printed, and with neither or both flags a run that
\* ends well has printed every address of both families that the interface
\* filter lets through, IPv4 in dotted decimal and IPv6 with colons.
C4_FamilySelection ==
  /\ (args.ipv4 /\ ~args.ipv6) =>
       \A i \in 1..Len(stdoutBuf) : ~HasColon(stdoutBuf[i]) /\ emitted[i].family # "inet6"
  /\ (args.ipv6 /\ ~args.ipv4) =>
       \A i \in 1..Len(stdoutBuf) :
         ~DottedDecimal(stdoutBuf[i]) /\ emitted[i].family # "inet"
  /\ (FinishedOk /\ ~args.list_interfaces /\ args.ipv4 = args.ipv6) =>
       /\ \A i \in 1..Len(ifc_req) :
            InFilter(ifc_req[i].ifr_name) =>
              \E k \in 1..Len(emitted) :
                /\ SameRecord(emitted[k],
                              Rec(ifc_req[i].ifr_name, "inet", ifc_req[i].ifr_addr))
                /\ DottedDecimal(stdoutBuf[k])
       /\ \A i \in 1..Len(procNetIfInet6) :
            InFilter(procNetIfInet6[i][6]) =>
              \E k \in 1..Len(emitted) :
                /\ SameRecord(emitted[k],
                              Rec(procNetIfInet6[i][6], "inet6", procNetIfInet6[i][1]))
                /\ HasColon(stdoutBuf[k])

\* A run without family flags that ended well and printed both families
C4_Witness ==
  /\ FinishedOk
  /\ ~args.ip_version_specified
  /\ \E i, j \in 1..Len(emitted) :
       emitted[i].family = "inet" /\ emitted[j].family = "inet6"

(* C5 *)

IsWarning(m) == m.msg = "could not open interface"

\* C5: once the positional names are validated, the working set is the names
\* that passed the probe, in order; each name that failed has one warning on
\* standard error; every address printed belongs to an interface whose name
\* equals a name that passed; nothing is printed when none passed; and the
\* run exits 0 unless a call failed fatally.
C5_BadNamesDropped ==
  (Validated /\ args.interfaces_specified) =>
    /\ SubSeq(args.interfaces, 1, args.num_interfaces) = Pick(argvNames, Passed, 1)
    /\ SelectSeq(stderr, IsWarning)
         = Pick([i \in 1..Len(argvNames) |-> Msg("could not open interface", argvNames[i])],
                (1..Len(argvNames)) \ Passed, 1)
    /\ \A k \in 1..Len(emitted) : emitted[k].ifc \in PassedNames
    /\ (Passed = {}) => stdoutBuf = << >>
    /\ (pc = "exited" /\ failed = "none") => exitStatus = <<EXIT_SUCCESS>>

\* A run given one good and one bad name that warned, printed and exited 0
C5_Witness ==
  /\ FinishedOk
  /\ Validated
  /\ args.interfaces_specified
  /\ Passed # {}
  /\ Passed # 1..Len(argvNames)
  /\ SelectSeq(stderr, IsWarning) # << >>
  /\ stdoutBuf # << >>

(* C6 *)

\* C6: in a run free of undefined behaviour the exit status is non-zero only
\* after a fatal failure, and a failure to read the IPv6 table is fatal only
\* when IPv6 output was asked for (-6, or no family flag).
C6_Inet6FatalOnlyWhenNeeded ==
  (~ub /\ pc = "exited" /\ exitStatus # <<EXIT_SUCCESS>>) =>
    /\ failed # "none"
    /\ failed \in {"access_if_inet6", "fopen_if_inet6"} => WantV6(args)

(* C7 *)

\* C7: with --list-interfaces, whatever else is on the command line, the run
\* never leaves the listing step: no call but the opening of the listing is
\* made, no socket, buffer or IPv6 table is acquired, no name is probed and no
\* address line is printed; and when the listing was read without undefined
\* behaviour the output delivered at exit is the lister's names, with status 0.
C7_ListOnly ==
  args.list_interfaces =>
    /\ pc \in {"get_interfaces", "list_interfaces", "exited", "crashed"}
    /\ calls \subseteq {"fopen_dev"}
    /\ held \cap {"sockfd", "ifc_buf", "if_inet6"} = {}
    /\ probeOk = << >>
    /\ ifc_req = << >> /\ procNetIfInet6 = << >>
    /\ \A i \in 1..Len(emitted) : ~IsAddressLine(i)
    /\ (pc = "exited" /\ failed = "none" /\ ~ub) =>
         delivered = interfaces /\ exitStatus = <<EXIT_SUCCESS>>
    /\ (pc = "exited" /\ failed = "none") => Len(delivered) = Len(interfaces)

\* A listing run, given other flags and a name as well, that printed the names
C7_Witness ==
  /\ args.list_interfaces
  /\ args.ipv4 /\ args.interfaces_specified
  /\ FinishedOk
  /\ delivered = <<lo, eth0>>

(* C9 *)

\* C9: no IPv4 line follows an IPv6 line, and when the opening of the IPv6
\* table fails the process exits with a non-zero status and everything printed
\* before, the IPv4 lines, has been delivered.
C9_Ipv4FirstAndKept ==
  /\ \A i, j \in 1..Len(emitted) :
       i < j => ~(emitted[i].family = "inet6" /\ emitted[j].family = "inet")
  /\ (pc = "exited" /\ failed = "fopen_if_inet6") =>
       /\ exitStatus # <<EXIT_SUCCESS>>
       /\ delivered = stdoutBuf
       /\ \A i \in 1..Len(ifc_req) :
            (InFilter(ifc_req[i].ifr_name) /\ (args.ipv4 \/ ~args.ip_version_specified)) =>
              \E k \in 1..Len(delivered) : delivered[k] = inet_ntop(ifc_req[i].ifr_addr)

\* The IPv6 table could not be opened after an IPv4 line had been printed
C9_Witness ==
  /\ pc = "exited"
  /\ failed = "fopen_if_inet6"
  /\ Len(delivered) > 0
  /\ emitted[1].family = "inet"

(* C10 *)

\* C10: when the process has exited, every resource it acquired has been
\* released by it.
C10_AllReleased == (~ub /\ pc = "exited") => held = {}

(* C8 *)

\* The name the lister is to return for a data line: its first token, cut at
\* the first colon if it has one
ExpectedName(line) ==
  LET t == TakeToken(SkipSpace(line))
  IN  IF Index(t, ":") = 0 THEN t ELSE SubSeq(t, 1, Index(t, ":") - 1)

FullHeader ==
  procNetDev.exists /\ ~procNetDev.readError
    /\ Len(procNetDev.lines) >= PROC_NET_DEV_HEADER_LINES

EveryLineHasToken ==
  \A i \in 1..Len(DataLines(procNetDev)) :
    TakeToken(SkipSpace(DataLines(procNetDev)[i])) # << >>

\* C8: on a readable listing with its two header lines and N data lines, each
\* holding a token, get_interfaces returns N names, the i-th being the first
\* token of the i-th data line without its colon suffix; on a listing that
\* cannot be opened or is shorter than the header the process exits with a
\* failure status.
C8_ListerReturnsNames ==
  pc # "get_interfaces" =>
    /\ (FullHeader /\ EveryLineHasToken) =>
         /\ pc = "list_interfaces"
         /\ interfaces = [i \in 1..Len(DataLines(procNetDev)) |->
                            ExpectedName(DataLines(procNetDev)[i])]
    /\ (~procNetDev.exists \/ Len(procNetDev.lines) < PROC_NET_DEV_HEADER_LINES) =>
         pc = "exited" /\ exitStatus = <<EXIT_FAILURE>>

\* What does hold of C8: the same statement, for the listings in which the
\* first token of every data line holds a colon, as in the kernel's table
EveryLineHasColon ==
  \A i \in 1..Len(DataLines(procNetDev)) :
    Index(TakeToken(SkipSpace(DataLines(procNetDev)[i])), ":") # 0

C8_OnColonLines == EveryLineHasColon => C8_ListerReturnsNames

====
